---- MODULE Spec2Model ----
\* giddy: branch dependency graph (src/src/graph.rs), per-branch persisted
\* state and reconciliation (src/src/git.rs), and the add / del / new /
\* show / update commands (src/src/main.rs).
EXTENDS Integers, Sequences, FiniteSets, TLC

VARIABLES
    branches,   \* names of the branches that exist in the backend
    files,      \* persisted BranchState record of every name (.git/giddy/<slug>)
    head,       \* backend: tip commit of every name
    fork,       \* backend: fork[b][d] = merge-base --fork-point d b (0 = none)
    contains,   \* backend: contains[d][b] = `branch --contains b d` lists d
    merged,     \* backend: merged[d][b] = `branch --merged d b` lists b
    graph,      \* GraphRepo of the running invocation
    pc,         \* position of the running command
    dfs,        \* DfsPostOrder state of a running `update --recursive`
    log,        \* Branch::update calls made by the last `update` command
    cmd,        \* the last operation: its name, the branch it ran on, the dep of a try_add_dep
    exit,       \* exit status of the last command
    ncmd,       \* number of commands run so far
    shown,      \* what the last `show` command printed
    prev,       \* the log of the command before, if that was an `update` of the same branch
    disk        \* whether the state files can be written: "ok" or "ro"

vars == <<branches, files, head, fork, contains, merged, graph, pc, dfs,
          log, cmd, exit, ncmd, shown, prev, disk>>

----------------------------------------------------------------------------
\* Bounds

MaxDeps == 2        \* longest persisted deps list of an initial record
MaxFocusDeps == 3   \* longest persisted deps list of the branch under update
MaxArgs == 2        \* longest dependency list of one add / del command
MaxCommit == 2      \* commit identifiers are 1..MaxCommit
MaxEdges == 5       \* most edges of a graph grown by try_add_dep calls
MaxCmds == 2        \* commands run in one behaviour
MaxNameLen == 4     \* longest branch name, in characters, where names are spelled out

----------------------------------------------------------------------------
\* Names and records

DefaultBranch == "main"

\* every name, in the order `git branch` lists them (sorted by refname)
NameOrder == <<"a", "b", "main", "x">>

Names == {NameOrder[i] : i \in 1..Len(NameOrder)}

\* the branches that exist initially; "x" names no existing branch
InitBranches == {"a", "b", "main"}

None == "none"

NoCommit == 0

Commits == 1..MaxCommit

\* BranchState::default(); `pr` is never read or written by the commands
DefaultState == [deps |-> <<>>, base |-> None, dirty |-> FALSE]

Range(s) == {s[i] : i \in 1..Len(s)}

NoDup(s) == \A i, j \in 1..Len(s) : i # j => s[i] # s[j]

SeqsUpTo(S, n) == UNION {[1..k -> S] : k \in 0..n}

\* IndexSet::insert: append unless present
Insert(s, e) == IF e \in Range(s) THEN s ELSE Append(s, e)

\* IndexSet::shift_remove: remove, keeping the order of the rest
ShiftRemove(s, e) == SelectSeq(s, LAMBDA y : y # e)

\* Repo::branches: one Branch per listed name, in listing order
BranchList(brs) == SelectSeq(NameOrder, LAMBDA n : n \in brs)

\* Branch::new: load the record, default the base to the default branch
BranchNew(name, fs) ==
    LET st == fs[name] IN
    IF st.base = None /\ name # DefaultBranch
    THEN [st EXCEPT !.base = DefaultBranch]
    ELSE st

\* Branch::deps: the effective dependencies
Deps(name, st) ==
    IF st.deps = <<>>
    THEN IF name = DefaultBranch THEN <<>> ELSE <<DefaultBranch>>
    ELSE st.deps

----------------------------------------------------------------------------
\* GraphRepo

\* nodes reachable from `from` along one or more edges
RECURSIVE ReachSet(_, _)
ReachSet(edges, seen) ==
    LET nxt == seen \cup {edges[i][2] : i \in {j \in 1..Len(edges) : edges[j][1] \in seen}}
    IN IF nxt = seen THEN seen ELSE ReachSet(edges, nxt)

Successors(edges, n) == {edges[i][2] : i \in {j \in 1..Len(edges) : edges[j][1] = n}}

Reaches(edges, from, to) ==
    /\ Successors(edges, from) # {}
    /\ to \in ReachSet(edges, Successors(edges, from))

\* Acyclic::try_from_graph succeeds
IsAcyclic(edges) == \A i \in 1..Len(edges) : ~Reaches(edges, edges[i][1], edges[i][1])

\* edges for the dependencies ahead of the first one that names no node
DepEdgesUntilUnknown(name, deps, nodes) ==
    LET unknown == {i \in 1..Len(deps) : deps[i] \notin Range(nodes)}
        n == IF unknown = {} THEN Len(deps)
             ELSE (CHOOSE i \in unknown : \A j \in unknown : i <= j) - 1
    IN [i \in 1..n |-> <<name, deps[i]>>]

\* the edges GraphRepo::new adds for one branch, in deps order
DepEdges(name, deps, nodes) ==
    LET known == SelectSeq(deps, LAMBDA d : d \in Range(nodes))
    IN [i \in 1..Len(known) |-> <<name, known[i]>>]

RECURSIVE AllDepEdges(_, _, _)
AllDepEdges(nodes, fs, i) ==
    IF i > Len(nodes) THEN <<>>
    ELSE DepEdges(nodes[i], Deps(nodes[i], BranchNew(nodes[i], fs)), nodes)
         \o AllDepEdges(nodes, fs, i + 1)

\* GraphRepo::new; ok = FALSE is the panic of the unwrap
GraphNew(brs, fs) ==
    LET nodes == BranchList(brs)
        edges == AllDepEdges(nodes, fs, 1)
    IN [nodes |-> nodes, edges |-> edges, ok |-> IsAcyclic(edges)]

\* try_add_edge that only looks for a direct back edge
TryAddEdgeDirectOnly(g, a, b) ==
    IF a = b \/ a \in Successors(g.edges, b)
    THEN [g |-> g, res |-> "cycle"]
    ELSE [g |-> [g EXCEPT !.edges = Append(@, <<a, b>>)], res |-> "ok"]

\* Acyclic::try_add_edge
TryAddEdge(g, a, b) ==
    IF a = b \/ Reaches(g.edges, b, a)
    THEN [g |-> g, res |-> "cycle"]
    ELSE [g |-> [g EXCEPT !.edges = Append(@, <<a, b>>)], res |-> "ok"]

\* GraphRepo::try_add_dep
TryAddDep(g, branch, dep) ==
    IF branch \notin Range(g.nodes) \/ dep \notin Range(g.nodes)
    THEN [g |-> g, res |-> "notfound"]
    ELSE TryAddEdge(g, branch, dep)

NoGraph == [nodes |-> <<>>, edges |-> <<>>, ok |-> TRUE]

NoCmd == [op |-> "none", cur |-> None, dep |-> None]

NoShown == [status |-> "none", needs_update |-> FALSE]

NoPrev == <<>>

----------------------------------------------------------------------------
\* Branch::update

NoRebase == <<>>

\* arguments that rebase the dependency onto the branch
RebaseArgsSwapped(onto, oldb, oldc, branch) ==
    <<[onto |-> branch, oldb |-> oldb, oldc |-> oldc, branch |-> onto]>>

\* the arguments of `git rebase --onto <onto> <old> <branch>`; <old> is a
\* branch name (oldb) on the base-change path, a commit (oldc) on the drift path
RebaseArgs(onto, oldb, oldc, branch) ==
    <<[onto |-> onto, oldb |-> oldb, oldc |-> oldc, branch |-> branch]>>

\* a drift check that rebases whenever a fork point is found
UpdateDriftAlways(name, dep, fs, hd, fk, ct, mg) ==
    LET fork_point == fk[name][dep]
        skip_update == fork_point = NoCommit /\
                       (hd[name] = hd[dep] \/ ct[dep][name] \/ mg[dep][name])
    IN IF skip_update
       THEN [fs |-> fs, ret |-> "ok", path |-> "skip", rebase |-> NoRebase]
       ELSE IF fork_point # NoCommit
       THEN [fs |-> fs, ret |-> "ok", path |-> "drift",
             rebase |-> RebaseArgs(dep, None, fork_point, name)]
       ELSE [fs |-> fs, ret |-> "nofork", path |-> "nofork", rebase |-> NoRebase]

\* a drift check that takes a missing fork point as "no update needed"
UpdateDriftLenient(name, dep, fs, hd, fk, ct, mg) ==
    LET fork_point == fk[name][dep]
    IN IF fork_point = NoCommit \/ hd[dep] = fork_point
       THEN [fs |-> fs, ret |-> "ok", path |-> "skip", rebase |-> NoRebase]
       ELSE [fs |-> fs, ret |-> "ok", path |-> "drift",
             rebase |-> RebaseArgs(dep, None, fork_point, name)]

\* a drift check that flips the dirty flag of the record when it skips
UpdateDriftSkipWrites(name, dep, fs, hd, fk, ct, mg) ==
    LET dep_head == hd[dep]
        fork_point == fk[name][dep]
        skip_update == IF fork_point # NoCommit
                       THEN dep_head = fork_point
                       ELSE \/ hd[name] = dep_head
                            \/ ct[dep][name]
                            \/ mg[dep][name]
    IN IF skip_update
       THEN [fs |-> [fs EXCEPT ![name].dirty = ~@], ret |-> "ok", path |-> "skip",
             rebase |-> NoRebase]
       ELSE IF fork_point # NoCommit
       THEN [fs |-> fs, ret |-> "ok", path |-> "drift",
             rebase |-> RebaseArgs(dep, None, fork_point, name)]
       ELSE [fs |-> fs, ret |-> "nofork", path |-> "nofork", rebase |-> NoRebase]

\* a drift check that marks the record dirty when it rebases
UpdateDriftMarksDirty(name, dep, fs, hd, fk, ct, mg) ==
    LET dep_head == hd[dep]
        fork_point == fk[name][dep]
        skip_update == IF fork_point # NoCommit
                       THEN dep_head = fork_point
                       ELSE \/ hd[name] = dep_head
                            \/ ct[dep][name]
                            \/ mg[dep][name]
    IN IF skip_update
       THEN [fs |-> fs, ret |-> "ok", path |-> "skip", rebase |-> NoRebase]
       ELSE IF fork_point # NoCommit
       THEN [fs |-> [fs EXCEPT ![name].dirty = TRUE], ret |-> "ok", path |-> "drift",
             rebase |-> RebaseArgs(dep, None, fork_point, name)]
       ELSE [fs |-> fs, ret |-> "nofork", path |-> "nofork", rebase |-> NoRebase]

\* the drift check of Branch::update, once the sole dependency is known
UpdateDrift(name, dep, fs, hd, fk, ct, mg) ==
    LET dep_head == hd[dep]
        fork_point == fk[name][dep]
        skip_update == IF fork_point # NoCommit
                       THEN dep_head = fork_point
                       ELSE \/ hd[name] = dep_head
                            \/ ct[dep][name]
                            \/ mg[dep][name]
    IN IF skip_update
       THEN [fs |-> fs, ret |-> "ok", path |-> "skip", rebase |-> NoRebase]
       ELSE IF fork_point # NoCommit
       THEN [fs |-> fs, ret |-> "ok", path |-> "drift",
             rebase |-> RebaseArgs(dep, None, fork_point, name)]
       ELSE [fs |-> fs, ret |-> "nofork", path |-> "nofork", rebase |-> NoRebase]

\* a base-change path that leaves the dirty flag as it was
UpdateBaseChangeKeepDirty(name, dep, st, fs) ==
    [fs |-> [fs EXCEPT ![name] = [st EXCEPT !.base = dep]],
     ret |-> "ok", path |-> "basechange",
     rebase |-> RebaseArgs(dep, st.base, NoCommit, name)]

\* a base-change path that writes the dependency it used into the record
UpdateBaseChangeWriteDeps(name, dep, st, fs) ==
    [fs |-> [fs EXCEPT ![name] = [st EXCEPT !.base = dep, !.dirty = FALSE, !.deps = <<dep>>]],
     ret |-> "ok", path |-> "basechange",
     rebase |-> RebaseArgs(dep, st.base, NoCommit, name)]

\* the base-change path of Branch::update: the result of the rebase is not
\* looked at (rebase_onto drops the bool of cmd_check)
UpdateBaseChange(name, dep, st, fs) ==
    [fs |-> [fs EXCEPT ![name] = [st EXCEPT !.base = dep, !.dirty = FALSE]],
     ret |-> "ok", path |-> "basechange",
     rebase |-> RebaseArgs(dep, st.base, NoCommit, name)]

\* a pruning that drops the default branch from the list in memory only
UpdatePruneUnsaved(name, st, fs) ==
    LET deps == Deps(name, st)
    IN IF Len(deps) > 1
       THEN [st |-> [st EXCEPT !.deps = ShiftRemove(@, DefaultBranch)], fs |-> fs,
             deps |-> ShiftRemove(deps, DefaultBranch)]
       ELSE [st |-> st, fs |-> fs, deps |-> deps]

\* the pruning of Branch::update: with more than one dependency the default
\* branch is dropped from the list and the record, and the record is saved
UpdatePrune(name, st, fs) ==
    LET deps == Deps(name, st)
        st1 == [st EXCEPT !.deps = ShiftRemove(@, DefaultBranch)]
    IN IF Len(deps) > 1
       THEN [st |-> st1, fs |-> [fs EXCEPT ![name] = st1],
             deps |-> ShiftRemove(deps, DefaultBranch)]
       ELSE [st |-> st, fs |-> fs, deps |-> deps]

\* a check that lets any number of dependencies through
TooManyDepsNever(deps) == FALSE

\* the check of Branch::update after the pruning
TooManyDeps(deps) == Len(deps) > 1

\* Branch::update on Branch::new(name): the files written, the result, the
\* path taken, the rebase invoked and the dependencies it started from; wr
\* says whether save_state can write, and a save that fails returns the
\* error with the file as it was
Update(name, fs, hd, fk, ct, mg, wr) ==
    LET st0 == BranchNew(name, fs)
        deps0 == Deps(name, st0)
        p == UpdatePrune(name, st0, fs)
        b == UpdateBaseChange(name, p.deps[1], p.st, p.fs)
        r == IF deps0 = <<>>
             THEN [fs |-> fs, ret |-> "ok", path |-> "nodeps", rebase |-> NoRebase]
             ELSE IF Len(deps0) > 1 /\ ~wr
             THEN [fs |-> fs, ret |-> "io", path |-> "prune", rebase |-> NoRebase]
             ELSE IF TooManyDeps(p.deps)
             THEN [fs |-> p.fs, ret |-> "multi", path |-> "multi", rebase |-> NoRebase]
             ELSE IF p.st.base # None /\ p.deps[1] # p.st.base
             THEN IF wr THEN b
                  ELSE [fs |-> p.fs, ret |-> "io", path |-> "basechange", rebase |-> b.rebase]
             ELSE UpdateDrift(name, p.deps[1], p.fs, hd, fk, ct, mg)
    IN [fs |-> r.fs, ret |-> r.ret, path |-> r.path, rebase |-> r.rebase,
        deps |-> deps0]

\* what `git rebase --onto` can answer: it can succeed only when its
\* arguments name existing branches; on success the branch gets the tip nh
RebaseOutcomes(rb, brs) ==
    IF rb = NoRebase THEN {[ok |-> FALSE, nh |-> NoCommit]}
    ELSE {[ok |-> FALSE, nh |-> NoCommit]} \cup
         (IF rb[1].onto \in brs /\ (rb[1].oldb = None \/ rb[1].oldb \in brs)
          THEN {[ok |-> TRUE, nh |-> h] : h \in Commits}
          ELSE {})

\* the backend after the rebase: a successful rebase moves the branch's tip
\* and makes the new base's tip its fork point
HeadAfter(rb, o, hd) ==
    IF rb # NoRebase /\ o.ok THEN [hd EXCEPT ![rb[1].branch] = o.nh] ELSE hd

ForkAfter(rb, o, hd, fk) ==
    IF rb # NoRebase /\ o.ok
    THEN [fk EXCEPT ![rb[1].branch][rb[1].onto] = hd[rb[1].onto]]
    ELSE fk

\* one entry of the log of Branch::update calls
LogEntry(name, r, o, n) ==
    [branch |-> name, ret |-> r.ret, path |-> r.path, rebase |-> r.rebase,
     deps |-> r.deps,
     gitok |-> IF r.rebase = NoRebase THEN "none" ELSE IF o.ok THEN "ok" ELSE "fail",
     n |-> n]

----------------------------------------------------------------------------
\* Queries of `show`

\* Branch::needs_update: the loop over the persisted deps, from the i-th on
RECURSIVE NeedsUpdateFrom(_, _, _, _, _)
NeedsUpdateFrom(name, deps, i, hd, fk) ==
    IF i > Len(deps) THEN FALSE
    ELSE IF fk[name][deps[i]] # NoCommit
    THEN IF hd[deps[i]] # fk[name][deps[i]]
         THEN TRUE
         ELSE NeedsUpdateFrom(name, deps, i + 1, hd, fk)
    ELSE TRUE

\* Branch::needs_update
NeedsUpdate(name, st, hd, fk) == NeedsUpdateFrom(name, st.deps, 1, hd, fk)

\* the suffix handle_show prints after the parent: Branch::merged fails
\* without a base, then Branch::equal with the default branch, then dirty
ShowStatus(name, st, hd, mg) ==
    IF st.base # None /\ mg[st.base][name] THEN "merged"
    ELSE IF hd[name] = hd[DefaultBranch] THEN "equal"
    ELSE IF st.dirty THEN "dirty"
    ELSE ""

\* GraphRepo::get_neighbors: the names across the edges of one direction,
\* most recently added edge first
GetNeighbors(g, n, dir) ==
    LET near == IF dir = "Outgoing" THEN 1 ELSE 2
        sel == SelectSeq(g.edges, LAMBDA e : e[near] = n)
    IN [i \in 1..Len(sel) |-> sel[Len(sel) + 1 - i][3 - near]]

\* GraphRepo::get_dependencies
GetDependencies(g, n) == GetNeighbors(g, n, "Outgoing")

\* GraphRepo::get_dependents
GetDependents(g, n) == GetNeighbors(g, n, "Incoming")

\* a reversal that hands back the graph as it is
ReversedNot(g) == g

\* GraphRepo::reversed: Graph::reverse flips every edge in place; ok = FALSE
\* is the panic of the unwrap of Acyclic::try_from_graph
Reversed(g) ==
    LET flipped == [i \in 1..Len(g.edges) |-> <<g.edges[i][2], g.edges[i][1]>>]
    IN [nodes |-> g.nodes, edges |-> flipped, ok |-> IsAcyclic(flipped)]

----------------------------------------------------------------------------
\* petgraph DfsPostOrder over the GraphRepo

NoDfs == [stack |-> <<>>, discovered |-> {}, finished |-> {}]

\* Graph::neighbors: targets of the outgoing edges, most recently added first
Neighbors(g, n) ==
    LET out == SelectSeq(g.edges, LAMBDA e : e[1] = n)
    IN [i \in 1..Len(out) |-> out[Len(out) + 1 - i][2]]

\* DfsPostOrder::new
DfsNew(start) == [stack |-> <<start>>, discovered |-> {}, finished |-> {}]

\* a traversal that emits a node when it discovers it (pre-order)
RECURSIVE DfsNextPreOrder(_, _)
DfsNextPreOrder(g, d) ==
    IF d.stack = <<>> THEN [dfs |-> d, nx |-> None]
    ELSE LET nx == d.stack[Len(d.stack)]
             popped == [d EXCEPT !.stack = SubSeq(@, 1, Len(@) - 1)]
         IN IF nx \notin d.discovered
            THEN LET disc == d.discovered \cup {nx}
                 IN [dfs |-> [popped EXCEPT !.discovered = disc,
                                            !.stack = @ \o SelectSeq(Neighbors(g, nx),
                                                           LAMBDA s : s \notin disc)],
                     nx |-> nx]
            ELSE DfsNextPreOrder(g, popped)

\* a post-order traversal without the finished set
RECURSIVE DfsNextNoFinished(_, _)
DfsNextNoFinished(g, d) ==
    IF d.stack = <<>> THEN [dfs |-> d, nx |-> None]
    ELSE LET nx == d.stack[Len(d.stack)] IN
         IF nx \notin d.discovered
         THEN LET disc == d.discovered \cup {nx}
              IN DfsNextNoFinished(g, [d EXCEPT !.discovered = disc,
                                               !.stack = @ \o SelectSeq(Neighbors(g, nx),
                                                              LAMBDA s : s \notin disc)])
         ELSE [dfs |-> [d EXCEPT !.stack = SubSeq(@, 1, Len(@) - 1)], nx |-> nx]

\* DfsPostOrder::next: the next finished node (None when exhausted)
RECURSIVE DfsNext(_, _)
DfsNext(g, d) ==
    IF d.stack = <<>> THEN [dfs |-> d, nx |-> None]
    ELSE LET nx == d.stack[Len(d.stack)] IN
         IF nx \notin d.discovered
         THEN LET disc == d.discovered \cup {nx}
              IN DfsNext(g, [d EXCEPT !.discovered = disc,
                                      !.stack = @ \o SelectSeq(Neighbors(g, nx),
                                                     LAMBDA s : s \notin disc)])
         ELSE LET popped == [d EXCEPT !.stack = SubSeq(@, 1, Len(@) - 1)]
              IN IF nx \notin d.finished
                 THEN [dfs |-> [popped EXCEPT !.finished = @ \cup {nx}], nx |-> nx]
                 ELSE DfsNext(g, popped)

----------------------------------------------------------------------------
\* Initial states: persisted records and backend states the commands can meet

\* dependency lists a record of `name` can hold
DepLists(name) == {s \in SeqsUpTo(Names \ {name}, MaxDeps) : NoDup(s)}

\* never reconciled records with the given dependency lists
DepsOnly(da, db, dm) ==
    [n \in Names |->
        [DefaultState EXCEPT !.deps = CASE n = "a" -> da
                                        [] n = "b" -> db
                                        [] n = DefaultBranch -> dm
                                        [] OTHER -> <<>>]]

\* records with every bounded dependency list, never reconciled
DepsFiles ==
    {DepsOnly(da, db, dm) :
        da \in DepLists("a"), db \in DepLists("b"), dm \in DepLists(DefaultBranch)}

\* records where one branch carries any dependency list, base and dirty flag
FocusFiles ==
    {[n \in Names |-> IF n = b THEN [deps |-> d, base |-> ba, dirty |-> di] ELSE DefaultState] :
        b \in {"a", DefaultBranch}, d \in {s \in SeqsUpTo(Names, MaxFocusDeps) : NoDup(s)},
        ba \in {None} \cup Names, di \in BOOLEAN}

\* a base is written by Branch::update only: it names another branch, and the
\* default branch, whose base is not defaulted, never gets one
BaseWritable(fs) ==
    /\ \A n \in Names : fs[n].base # n
    /\ fs[DefaultBranch].base = None

UpToDateHead == [n \in Names |-> 1]

UpToDateFork == [b \in Names |-> [d \in Names |-> 1]]

Never == [d \in Names |-> [b \in Names |-> FALSE]]

\* backend states: at most one tip ahead, one fork point answer, and one
\* contains / merged answer where no fork point is found
Heads == {UpToDateHead} \cup {[UpToDateHead EXCEPT ![n] = c] : n \in InitBranches, c \in Commits}

Forks == {[b \in Names |-> [d \in Names |-> f]] : f \in {NoCommit} \cup Commits}

Answers == {[d \in Names |-> [b \in Names |-> v]] : v \in BOOLEAN}

InitIdle ==
    /\ branches = InitBranches
    /\ GraphNew(branches, files).ok
    /\ graph = NoGraph
    /\ pc = "idle"
    /\ dfs = NoDfs
    /\ log = <<>>
    /\ cmd = NoCmd
    /\ exit = 0
    /\ ncmd = 0
    /\ shown = NoShown
    /\ prev = NoPrev

Init ==
    /\ disk = "ok"
    /\ files \in DepsFiles
    /\ head = UpToDateHead /\ fork = UpToDateFork
    /\ contains = Never /\ merged = Never
    /\ InitIdle

\* one branch under update, over every backend state
InitFocus ==
    /\ files \in FocusFiles
    /\ \A n \in InitBranches : n \notin Range(files[n].deps)
    /\ BaseWritable(files)
    /\ head \in Heads /\ fork \in Forks
    /\ contains \in Answers /\ merged \in Answers
    /\ fork[DefaultBranch][DefaultBranch] # NoCommit => contains = Never /\ merged = Never
    /\ InitIdle

InitUpdate == InitFocus /\ disk = "ok"

\* the same with the state files writable or not; no record is dirty and
\* contains / merged answer no
InitIo ==
    /\ InitFocus
    /\ \A n \in Names : ~files[n].dirty
    /\ contains = Never /\ merged = Never
    /\ disk \in {"ok", "ro"}

----------------------------------------------------------------------------
\* Commands

ArgLists == SeqsUpTo(Names, MaxArgs) \ {<<>>}

CanRun == pc = "idle" /\ ncmd < MaxCmds

\* the loop of handle_add over the dependencies given
RECURSIVE AddLoop(_, _, _, _, _, _)
AddLoop(g, st, previous_deps, cur, args, i) ==
    IF i > Len(args) THEN [g |-> g, st |-> st, res |-> "ok"]
    ELSE IF args[i] \in Range(previous_deps)
    THEN AddLoop(g, st, previous_deps, cur, args, i + 1)
    ELSE LET r == TryAddDep(g, cur, args[i]) IN
         IF r.res # "ok" THEN [g |-> r.g, st |-> st, res |-> r.res]
         ELSE AddLoop(r.g, [st EXCEPT !.deps = Insert(@, args[i])],
                      previous_deps, cur, args, i + 1)

\* handle_add that saves what it has accepted so far, also when it fails
AddSaveAlways(fs, cur, r) == [fs EXCEPT ![cur] = r.st]

\* the save_state at the end of handle_add: reached only when no `?` returned
AddSave(fs, cur, r) ==
    IF r.res = "ok" THEN [fs EXCEPT ![cur] = r.st] ELSE fs

\* handle_add
Add(cur, args) ==
    /\ CanRun
    /\ LET st == BranchNew(cur, files)
           g == GraphNew(branches, files)
           r == AddLoop(g, st, st.deps, cur, args, 1)
       IN /\ graph' = IF g.ok THEN r.g ELSE g
          /\ exit' = IF ~g.ok THEN 101 ELSE IF r.res = "ok" /\ disk = "ok" THEN 0 ELSE 1
          /\ files' = IF g.ok /\ disk = "ok" THEN AddSave(files, cur, r) ELSE files
    /\ cmd' = [op |-> "add", cur |-> cur, dep |-> None]
    /\ ncmd' = ncmd + 1
    /\ prev' = NoPrev
    /\ shown' = NoShown
    /\ log' = <<>>
    /\ UNCHANGED <<disk, branches, head, fork, contains, merged, pc, dfs>>

\* the loop of handle_del
RECURSIVE DelLoop(_, _, _)
DelLoop(deps, args, i) ==
    IF i > Len(args) THEN deps
    ELSE DelLoop(ShiftRemove(deps, args[i]), args, i + 1)

\* handle_del
Del(cur, args) ==
    /\ CanRun
    /\ LET st == BranchNew(cur, files)
       IN files' = IF disk = "ok"
                   THEN [files EXCEPT ![cur] = [st EXCEPT !.deps = DelLoop(@, args, 1)]]
                   ELSE files
    /\ exit' = IF disk = "ok" THEN 0 ELSE 1
    /\ cmd' = [op |-> "del", cur |-> cur, dep |-> None]
    /\ ncmd' = ncmd + 1
    /\ prev' = NoPrev
    /\ shown' = NoShown
    /\ log' = <<>>
    /\ graph' = NoGraph
    /\ UNCHANGED <<disk, branches, head, fork, contains, merged, pc, dfs>>

\* the backend after `git switch --create`: the new branch starts at the tip
\* of the branch it was created from
HeadAfterCreate(name, cur, hd) == [hd EXCEPT ![name] = hd[cur]]

\* handle_new with the name given; a name made up from a random suffix is a
\* name no branch has. `git switch --create` fails on an existing name
Create(cur, name) ==
    /\ CanRun
    /\ IF name \in branches
       THEN /\ exit' = 1
            /\ UNCHANGED <<branches, files, head>>
       ELSE /\ branches' = branches \cup {name}
            /\ head' = HeadAfterCreate(name, cur, head)
            /\ files' = IF disk = "ok"
                        THEN [files EXCEPT ![name] =
                                 [BranchNew(name, files) EXCEPT !.deps = Insert(@, cur)]]
                        ELSE files
            /\ exit' = IF disk = "ok" THEN 0 ELSE 1
    /\ cmd' = [op |-> "new", cur |-> cur, dep |-> name]
    /\ ncmd' = ncmd + 1
    /\ prev' = NoPrev
    /\ shown' = NoShown
    /\ log' = <<>>
    /\ graph' = NoGraph
    /\ UNCHANGED <<disk, fork, contains, merged, pc, dfs>>

\* handle_update without --recursive
UpdateSingle(cur) ==
    /\ CanRun
    /\ LET r == Update(cur, files, head, fork, contains, merged, disk = "ok") IN
       \E o \in RebaseOutcomes(r.rebase, branches) :
          /\ files' = r.fs
          /\ head' = HeadAfter(r.rebase, o, head)
          /\ fork' = ForkAfter(r.rebase, o, head, fork)
          /\ log' = <<LogEntry(cur, r, o, ncmd + 1)>>
          /\ exit' = IF r.ret = "ok" THEN 0 ELSE 1
    /\ cmd' = [op |-> "update", cur |-> cur, dep |-> None]
    /\ ncmd' = ncmd + 1
    /\ prev' = IF cmd.op = "update" /\ cmd.cur = cur THEN log ELSE NoPrev
    /\ shown' = NoShown
    /\ graph' = NoGraph
    /\ UNCHANGED <<disk, branches, contains, merged, pc, dfs>>

\* handle_update --recursive, up to the traversal loop
UpdateRecursive(cur) ==
    /\ CanRun
    /\ LET g == GraphNew(branches, files) IN
          /\ graph' = g
          /\ pc' = IF g.ok THEN "traverse" ELSE "idle"
          /\ exit' = IF g.ok THEN 0 ELSE 101
          /\ dfs' = IF g.ok THEN DfsNew(cur) ELSE NoDfs
    /\ cmd' = [op |-> "update_r", cur |-> cur, dep |-> None]
    /\ ncmd' = ncmd + 1
    /\ prev' = NoPrev
    /\ shown' = NoShown
    /\ log' = <<>>
    /\ UNCHANGED <<disk, branches, files, head, fork, contains, merged>>

\* a loop that goes on to the next branch whatever update returned
AfterUpdateGoOn(ret) == "traverse"

\* the `?` on branch.update() in the traversal loop: an Err ends the command
AfterUpdate(ret) == IF ret = "ok" THEN "traverse" ELSE "done"

\* one round of the traversal loop of handle_update: dfs.next, Branch::update
TraverseStep ==
    /\ pc = "traverse"
    /\ LET nxt == DfsNext(graph, dfs) IN
       IF nxt.nx = None
       THEN /\ pc' = "idle"
            /\ dfs' = nxt.dfs
            /\ exit' = 0
            /\ UNCHANGED <<files, head, fork, log>>
       ELSE LET r == Update(nxt.nx, files, head, fork, contains, merged, disk = "ok") IN
            \E o \in RebaseOutcomes(r.rebase, branches) :
               /\ files' = r.fs
               /\ head' = HeadAfter(r.rebase, o, head)
               /\ fork' = ForkAfter(r.rebase, o, head, fork)
               /\ log' = Append(log, LogEntry(nxt.nx, r, o, ncmd))
               /\ dfs' = nxt.dfs
               /\ pc' = AfterUpdate(r.ret)
               /\ exit' = IF r.ret = "ok" THEN 0 ELSE 1
    /\ UNCHANGED <<disk, branches, contains, merged, graph, cmd, ncmd, shown, prev>>

\* the process has exited with an error: the next command starts afresh
Exited ==
    /\ pc = "done"
    /\ pc' = "idle"
    /\ dfs' = NoDfs
    /\ UNCHANGED <<disk, branches, files, head, fork, contains, merged, graph, log, cmd, exit, ncmd,
                   shown, prev>>

\* handle_show, with or without --tree
Show(cur, tree) ==
    /\ CanRun
    /\ LET st == BranchNew(cur, files)
           g == GraphNew(branches, files)
       IN /\ shown' = [status |-> ShowStatus(cur, st, head, merged),
                       needs_update |-> NeedsUpdate(cur, st, head, fork)]
          /\ graph' = IF ~tree THEN NoGraph ELSE IF g.ok THEN Reversed(g) ELSE g
          /\ exit' = IF tree /\ ~g.ok THEN 101 ELSE 0
    /\ cmd' = [op |-> "show", cur |-> cur, dep |-> None]
    /\ ncmd' = ncmd + 1
    /\ prev' = NoPrev
    /\ log' = <<>>
    /\ UNCHANGED <<disk, branches, files, head, fork, contains, merged, pc, dfs>>

NextShow == \E cur \in branches, tree \in BOOLEAN : Show(cur, tree)

NextUpdate ==
    \/ \E cur \in branches : UpdateSingle(cur)
    \/ \E cur \in branches : UpdateRecursive(cur)
    \/ TraverseStep
    \/ Exited

Next ==
    \/ \E cur \in branches, args \in ArgLists : Add(cur, args)
    \/ \E cur \in branches, args \in ArgLists : Del(cur, args)
    \/ \E cur \in branches, name \in Names : Create(cur, name)
    \/ NextUpdate
    \/ NextShow

Spec == Init /\ [][Next]_vars

SpecUpdate == InitUpdate /\ [][NextUpdate]_vars

\* update commands alone, over every bounded acyclic set of records
SpecTraverse == Init /\ [][NextUpdate]_vars

\* show and update commands, over the records and backend states of one branch
SpecShow == InitUpdate /\ [][NextShow \/ NextUpdate]_vars

\* update commands over state files that can or cannot be written
SpecIo == InitIo /\ [][NextUpdate]_vars

----------------------------------------------------------------------------
\* GraphRepo on its own: sequences of try_add_dep calls

\* no dependency, or one that names no existing branch
StaleOrNone == {<<>>, <<"x">>}

InitGraph ==
    /\ disk = "ok"
    /\ files \in {DepsOnly(da, db, dm) : da \in StaleOrNone, db \in StaleOrNone, dm \in StaleOrNone}
    /\ head = UpToDateHead /\ fork = UpToDateFork
    /\ contains = Never /\ merged = Never
    /\ branches = InitBranches
    /\ graph = GraphNew(branches, files)
    /\ pc = "graph"
    /\ dfs = NoDfs
    /\ log = <<>>
    /\ cmd = NoCmd
    /\ exit = 0
    /\ ncmd = 0
    /\ shown = NoShown
    /\ prev = NoPrev

\* one call of GraphRepo::try_add_dep(branch, dep)
CallTryAddDep(branch, dep) ==
    /\ pc = "graph"
    /\ Len(graph.edges) < MaxEdges
    /\ LET r == TryAddDep(graph, branch, dep) IN
          /\ graph' = r.g
          /\ exit' = IF r.res = "ok" THEN 0 ELSE 1
    /\ cmd' = [op |-> "try_add_dep", cur |-> branch, dep |-> dep]
    /\ UNCHANGED <<disk, branches, files, head, fork, contains, merged, pc, dfs, log, ncmd,
                   shown, prev>>

\* one call of GraphRepo::reversed, the result taking the place of the graph
CallReversed ==
    /\ pc = "graph"
    /\ graph' = Reversed(graph)
    /\ exit' = IF graph'.ok THEN 0 ELSE 101
    /\ cmd' = [op |-> "reversed", cur |-> None, dep |-> None]
    /\ UNCHANGED <<disk, branches, files, head, fork, contains, merged, pc, dfs, log, ncmd,
                   shown, prev>>

NextGraph ==
    \/ \E branch \in Names, dep \in Names : CallTryAddDep(branch, dep)
    \/ CallReversed

SpecGraph == InitGraph /\ [][NextGraph]_vars

----------------------------------------------------------------------------
\* State files of branch names spelled out character by character. The names
\* of the other specifications ("a", "b", "main", "x") hold no "/", so that
\* each is its own slug and `files` is keyed by the name there.

Chars == {"a", "/", "_"}

\* names git accepts: not empty, no "/" at either end, no "//"
PathNames ==
    {n \in SeqsUpTo(Chars, MaxNameLen) :
        /\ n # <<>>
        /\ n[1] # "/" /\ n[Len(n)] # "/"
        /\ \A i \in 1..(Len(n) - 1) : ~(n[i] = "/" /\ n[i + 1] = "/")}

\* Branch::state_file: the file name under .git/giddy is
\* name.replace("/", "__")
RECURSIVE StateFile(_)
StateFile(name) ==
    IF name = <<>> THEN <<>>
    ELSE (IF name[1] = "/" THEN <<"_", "_">> ELSE <<name[1]>>) \o StateFile(Tail(name))

\* Branch::load_state on the files fs
LoadState(name, fs) == fs[StateFile(name)]

\* Branch::save_state of the record st on the files fs
SaveState(name, st, fs) == [fs EXCEPT ![StateFile(name)] = st]

\* two branches exist, no record has been written yet (a missing file loads
\* as the default record)
InitSlug ==
    /\ disk = "ok"
    /\ branches \in {{n, m} : n \in PathNames, m \in PathNames}
    /\ Cardinality(branches) = 2
    /\ files = [k \in {StateFile(n) : n \in branches} |-> DefaultState]
    /\ head = UpToDateHead /\ fork = UpToDateFork
    /\ contains = Never /\ merged = Never
    /\ graph = NoGraph
    /\ pc = "files"
    /\ dfs = NoDfs
    /\ log = <<>>
    /\ cmd = NoCmd
    /\ exit = 0
    /\ ncmd = 0
    /\ shown = NoShown
    /\ prev = NoPrev

\* one Branch::save_state on a branch, with the dirty flag either way
CallSaveState(name, dirty) ==
    /\ pc = "files"
    /\ ncmd < MaxCmds
    /\ files' = SaveState(name, [LoadState(name, files) EXCEPT !.dirty = dirty], files)
    /\ cmd' = [op |-> "save_state", cur |-> name, dep |-> None]
    /\ ncmd' = ncmd + 1
    /\ UNCHANGED <<disk, branches, head, fork, contains, merged, graph, pc, dfs, log, exit,
                   shown, prev>>

NextSlug == \E name \in branches, dirty \in BOOLEAN : CallSaveState(name, dirty)

SpecSlug == InitSlug /\ [][NextSlug]_vars

----------------------------------------------------------------------------
\* Properties

\* a ranking of the nodes that every edge descends: the graph has no cycle
HasTopoOrder(nodes, edges) ==
    \E r \in [Range(nodes) -> 1..Len(nodes)] :
        \A i \in 1..Len(edges) : r[edges[i][1]] > r[edges[i][2]]

\* this step made a Branch::update call; its log entry is the last one
Called == log' # log /\ log' # <<>>

\* the effective dependencies of `name` before the call, after pruning
Pruned(name) ==
    LET e == Deps(name, BranchNew(name, files))
    IN IF Len(e) > 1 THEN ShiftRemove(e, DefaultBranch) ELSE e

\* the declared base update sees differs from the sole dependency
BaseChanged(name) ==
    /\ Len(Pruned(name)) = 1
    /\ BranchNew(name, files).base # None
    /\ BranchNew(name, files).base # Pruned(name)[1]

\* update reaches the drift check: one dependency and no base change
DriftChecked(name) ==
    /\ Len(Pruned(name)) = 1
    /\ BranchNew(name, files).base \in {None, Pruned(name)[1]}

LogBranches == [i \in 1..Len(log) |-> log[i].branch]

\* C1: after any sequence of add, del and update commands the graph rebuilt
\* from the persisted deps is acyclic (GraphRepo::new does not fail on it)
C1_Claim == GraphNew(branches, files).ok

\* C2: after every try_add_dep on known branches that returns Ok the graph is
\* acyclic and has the new edge; every call that would close a cycle
\* (branch = dep included) returns an error and leaves the graph unchanged
C2_Acyclic ==
    [][(cmd'.op = "try_add_dep" /\ cmd'.cur \in Range(graph.nodes)
                                /\ cmd'.dep \in Range(graph.nodes)) =>
        /\ exit' = 0 =>
              /\ HasTopoOrder(graph'.nodes, graph'.edges)
              /\ graph'.edges = Append(graph.edges, <<cmd'.cur, cmd'.dep>>)
        /\ ~HasTopoOrder(graph.nodes, Append(graph.edges, <<cmd'.cur, cmd'.dep>>)) =>
              /\ exit' = 1
              /\ graph' = graph
        /\ graph'.nodes = graph.nodes]_vars

\* a call between two different known branches was rejected, for a cycle
\* that runs over more than one existing edge
C2_Witness ==
    /\ cmd.op = "try_add_dep"
    /\ exit = 1
    /\ cmd.cur # cmd.dep
    /\ {cmd.cur, cmd.dep} \subseteq Range(graph.nodes)
    /\ cmd.cur \notin Successors(graph.edges, cmd.dep)

\* C3: an add command that fails (a dependency would close a cycle or names
\* an unknown branch) leaves every persisted record unchanged
C3_RejectedAddWritesNothing ==
    [][(cmd'.op = "add" /\ ncmd' = ncmd + 1 /\ exit' = 1) => files' = files]_vars

\* an add failed after try_add_dep had accepted an earlier dependency of the list
C3_Witness ==
    /\ cmd.op = "add"
    /\ exit = 1
    /\ Len(graph.edges) > Len(GraphNew(branches, files).edges)

\* C4: in update --recursive, Branch::update is called on a branch only after
\* it has returned Ok for every branch the graph has an edge to from it, and
\* the root is the last one
C4_PostOrder ==
    (cmd.op = "update_r" /\ graph.ok) =>
        /\ \A i \in 1..Len(log) :
              \A d \in Successors(graph.edges, log[i].branch) :
                  \E j \in 1..(i - 1) : log[j].branch = d /\ log[j].ret = "ok"
        /\ (pc = "idle" /\ exit = 0) =>
              log # <<>> /\ log[Len(log)].branch = cmd.cur

\* the chain b -> a -> main, started at b, was reconciled in the order main, a, b
C4_Witness ==
    /\ cmd.op = "update_r"
    /\ pc = "idle"
    /\ exit = 0
    /\ cmd.cur = "b"
    /\ Range(graph.edges) = {<<"b", "a">>, <<"a", "main">>}
    /\ LogBranches = <<"main", "a", "b">>

\* C5: an update --recursive that ends without error has called
\* Branch::update exactly once on the root and on every branch reachable
\* from it, and on no other branch
C5_ExactlyOnce ==
    (cmd.op = "update_r" /\ pc = "idle" /\ exit = 0) =>
        \A n \in Names :
            Cardinality({i \in 1..Len(log) : log[i].branch = n})
                = IF n \in ReachSet(graph.edges, {cmd.cur}) THEN 1 ELSE 0

\* a diamond: main is reachable from the root b directly and through a, and
\* the traversal pushed it twice
C5_Witness ==
    /\ cmd.op = "update_r"
    /\ pc = "idle"
    /\ exit = 0
    /\ cmd.cur = "b"
    /\ graph.edges = <<<<"a", "main">>, <<"b", "a">>, <<"b", "main">>>>
    /\ Len(log) = 3

\* C6: with one effective dependency and a declared base that differs from it,
\* Branch::update invokes exactly `rebase --onto dep <old base> <branch>`,
\* returns Ok whatever the fork point and the tips are, and the persisted
\* record then has base = dep and dirty = false
C6_BaseChange ==
    [][Called =>
        LET e == log'[Len(log')] IN
        BaseChanged(e.branch) =>
            /\ e.rebase = RebaseArgs(Pruned(e.branch)[1], BranchNew(e.branch, files).base,
                                     NoCommit, e.branch)
            /\ e.ret = "ok"
            /\ files'[e.branch].base = Pruned(e.branch)[1]
            /\ files'[e.branch].dirty = FALSE]_vars

\* the base-change path ran in a backend state where the drift check would
\* have found no fork point and no reason to skip
C6_Witness ==
    /\ log # <<>>
    /\ LET e == log[Len(log)] IN
          /\ e.path = "basechange"
          /\ e.gitok = "fail"
          /\ fork[e.branch][e.rebase[1].onto] = NoCommit
          /\ head[e.branch] # head[e.rebase[1].onto]
          /\ ~contains[e.rebase[1].onto][e.branch]
          /\ ~merged[e.rebase[1].onto][e.branch]
          /\ files[e.branch].base = e.rebase[1].onto

\* C7: a failed rebase on the base-change path leaves the declared base and
\* the dirty flag of the persisted record as they were
C7_Claim ==
    [][Called =>
        LET e == log'[Len(log')] IN
        (BaseChanged(e.branch) /\ e.gitok = "fail") =>
            /\ BranchNew(e.branch, files').base = BranchNew(e.branch, files).base
            /\ files'[e.branch].dirty = files[e.branch].dirty]_vars

\* C8: when a rebase invoked by Branch::update fails, Branch::update returns
\* an error and the command exits with 1
C8_Claim ==
    [][Called =>
        LET e == log'[Len(log')] IN
        e.gitok = "fail" => (e.ret # "ok" /\ exit' = 1)]_vars

\* C9: at the drift check with a fork point F, a rebase is invoked iff the
\* dependency's tip differs from F, it is `rebase --onto dep F <branch>`, and
\* without it update returns Ok
C9_Drift ==
    [][Called =>
        LET e == log'[Len(log')]
            dep == Pruned(e.branch)[1]
        IN (DriftChecked(e.branch) /\ fork[e.branch][dep] # NoCommit) =>
            /\ head[dep] # fork[e.branch][dep] =>
                  e.rebase = RebaseArgs(dep, None, fork[e.branch][dep], e.branch)
            /\ head[dep] = fork[e.branch][dep] =>
                  (e.rebase = NoRebase /\ e.ret = "ok")]_vars

\* a drift rebase from the fork point was invoked, and it failed, so that the
\* backend still shows the tip of the dependency away from the fork point
C9_Witness ==
    /\ log # <<>>
    /\ LET e == log[Len(log)] IN
          /\ e.path = "drift"
          /\ e.gitok = "fail"
          /\ e.rebase[1].oldc = fork[e.branch][e.rebase[1].onto]
          /\ head[e.rebase[1].onto] # e.rebase[1].oldc

\* C10: at the drift check without a fork point no rebase is invoked; update
\* returns Ok if the tips are equal, or the dependency contains the branch, or
\* the branch is merged into it, and the unresolvable-fork-point error otherwise
C10_NoForkPoint ==
    [][Called =>
        LET e == log'[Len(log')]
            dep == Pruned(e.branch)[1]
        IN (DriftChecked(e.branch) /\ fork[e.branch][dep] = NoCommit) =>
            /\ e.rebase = NoRebase
            /\ e.ret = IF \/ head[e.branch] = head[dep]
                          \/ contains[dep][e.branch]
                          \/ merged[dep][e.branch]
                       THEN "ok" ELSE "nofork"]_vars

\* update returned the unresolvable-fork-point error
C10_Witness ==
    /\ log # <<>>
    /\ log[Len(log)].ret = "nofork"
    /\ log[Len(log)].rebase = NoRebase
    /\ exit = 1

\* the state right after a `show` of branch n: the command changes neither
\* the records nor the backend, so the state is the one the queries read
Showed(n) == cmd.op = "show" /\ cmd.cur = n

\* C11: needs_update returns false for a branch with the single dependency
\* dep when no fork point is found but the heads are equal, or dep contains
\* the branch, or the branch is merged into dep, that is where Branch::update
\* takes the no-update-needed path
C11_Claim ==
    \A n \in branches, dep \in branches :
        /\ Showed(n)
        /\ files[n].deps = <<dep>>
        /\ fork[n][dep] = NoCommit
        /\ head[n] = head[dep] \/ contains[dep][n] \/ merged[dep][n]
        /\ Update(n, files, head, fork, contains, merged, TRUE).path = "skip"
        => shown.needs_update = FALSE

\* C12: needs_update applies the drift rule to the effective dependency: for
\* a non-default branch with empty persisted deps and fork point F against
\* the default branch it is false when the head of the default branch is F
\* and true when it is not
C12_Claim ==
    \A n \in branches \ {DefaultBranch} :
        /\ Showed(n)
        /\ files[n].deps = <<>>
        /\ fork[n][DefaultBranch] # NoCommit
        => shown.needs_update = (head[DefaultBranch] # fork[n][DefaultBranch])

\* the entries of a list other than the default branch, in order
NonDefault(deps) == SelectSeq(deps, LAMBDA d : d # DefaultBranch)

\* C13: one Branch::update attempt on a branch with more than one dependency
\* leaves the persisted deps without the default branch ([defaultBranch, X]
\* becomes [X]) whatever the rest of the attempt returns, and no update
\* removes an entry other than the default branch
C13_Pruning ==
    [][Called =>
        LET n == log'[Len(log')].branch IN
            /\ Len(files[n].deps) > 1 => files'[n].deps = NonDefault(files[n].deps)
            /\ (Len(files[n].deps) = 2 /\ files[n].deps[1] = DefaultBranch)
                   => files'[n].deps = <<files[n].deps[2]>>
            /\ NonDefault(files'[n].deps) = NonDefault(files[n].deps)]_vars

\* the pruning left one dependency and the rest of the attempt failed
C13_Witness ==
    /\ log # <<>>
    /\ LET e == log[Len(log)] IN
          /\ Len(e.deps) = 2 /\ e.deps[1] = DefaultBranch
          /\ e.ret = "nofork"
          /\ files[e.branch].deps = <<e.deps[2]>>

\* C14: with more than one dependency left after the pruning, update returns
\* the multiple-dependencies error, invokes no rebase and leaves the declared
\* base and the dirty flag of the branch as they were
C14_MultipleDeps ==
    [][Called =>
        LET e == log'[Len(log')]
            n == e.branch
        IN Len(Pruned(n)) > 1 =>
            /\ e.ret = "multi"
            /\ e.rebase = NoRebase
            /\ head' = head
            /\ BranchNew(n, files').base = BranchNew(n, files).base
            /\ BranchNew(n, files').dirty = BranchNew(n, files).dirty]_vars

\* update dropped the default branch from three dependencies and failed on
\* the two that were left
C14_Witness ==
    /\ log # <<>>
    /\ LET e == log[Len(log)] IN
          /\ e.ret = "multi"
          /\ DefaultBranch \in Range(e.deps)
          /\ files[e.branch].deps = NonDefault(e.deps)
          /\ Len(files[e.branch].deps) = 2
          /\ exit = 1

\* C15: the effective deps are [defaultBranch] for a non-default branch with
\* empty persisted deps, [] for the default branch with empty persisted deps
\* and the persisted deps otherwise; no update writes into empty persisted
\* deps, and update on the default branch with empty deps invokes no rebase
\* and writes nothing
C15_ComputedView ==
    [][/\ \A n \in branches :
             Deps(n, BranchNew(n, files)) =
                 IF files[n].deps # <<>> THEN files[n].deps
                 ELSE IF n = DefaultBranch THEN <<>> ELSE <<DefaultBranch>>
       /\ Called =>
             LET e == log'[Len(log')] IN
                /\ \A m \in Names : files[m].deps = <<>> => files'[m].deps = <<>>
                /\ (e.branch = DefaultBranch /\ files[DefaultBranch].deps = <<>>)
                       => e.rebase = NoRebase /\ files' = files /\ e.ret = "ok"]_vars

\* update rebased a branch without persisted deps onto the default branch and
\* saved its record, the deps still empty
C15_Witness ==
    /\ log # <<>>
    /\ LET e == log[Len(log)] IN
          /\ e.path = "basechange"
          /\ e.rebase[1].onto = DefaultBranch
          /\ files[e.branch].deps = <<>>
          /\ files[e.branch].base = DefaultBranch

\* update found nothing to do: no dependency, or the drift check skipped
NoUpdateNeeded(e) == e.path \in {"nodeps", "skip"}

\* C16: when the last Branch::update call found no update needed and update
\* is invoked again on the same branch with the backend as it is, the second
\* call invokes no rebase and leaves the record of the branch as it was
C16_Idempotent ==
    [][(/\ Called
        /\ cmd'.op = "update"
        /\ log # <<>>
        /\ log[Len(log)].branch = cmd'.cur
        /\ NoUpdateNeeded(log[Len(log)]))
       => /\ NoUpdateNeeded(log'[1])
          /\ log'[1].rebase = NoRebase
          /\ files'[cmd'.cur] = files[cmd'.cur]
          /\ head' = head]_vars

\* two updates in a row on a branch with a dependency, both skipped
C16_Witness ==
    /\ cmd.op = "update"
    /\ log # <<>> /\ prev # <<>>
    /\ prev[1].branch = cmd.cur
    /\ prev[1].path = "skip"
    /\ log[1].path = "skip"
    /\ log[1].rebase = NoRebase

\* C17: the non-recursive update reconciles the current branch only: it calls
\* Branch::update once, every rebase it invokes rebases the current branch,
\* and the record and the tip of every other branch stay as they were
C17_OnlyCurrent ==
    [][(Called /\ cmd'.op = "update") =>
        /\ Len(log') = 1
        /\ log'[1].branch = cmd'.cur
        /\ log'[1].rebase # NoRebase => log'[1].rebase[1].branch = cmd'.cur
        /\ \A m \in Names \ {cmd'.cur} : files'[m] = files[m] /\ head'[m] = head[m]]_vars

\* the current branch was rebased onto a dependency that itself lags behind
\* its own dependency
C17_Witness ==
    /\ cmd.op = "update"
    /\ log # <<>>
    /\ log[1].gitok = "ok"
    /\ LET dep == log[1].rebase[1].onto
           up == Deps(dep, BranchNew(dep, files))
       IN /\ dep \in branches
          /\ up # <<>>
          /\ fork[dep][up[1]] # NoCommit
          /\ head[up[1]] # fork[dep][up[1]]

\* this step is the graph build of `update --recursive`
BuiltGraph == cmd'.op = "update_r" /\ ncmd' = ncmd + 1

\* C18: GraphRepo::new makes one node per existing branch and the edges
\* branch -> dep for exactly the effective dependencies that name an
\* existing branch; a dependency naming no branch adds nothing and does not
\* fail the build
C18_GraphNew ==
    [][BuiltGraph =>
        /\ Range(graph'.nodes) = branches
        /\ Len(graph'.nodes) = Cardinality(branches)
        /\ Range(graph'.edges) =
              {e \in branches \X branches : e[2] \in Range(Deps(e[1], BranchNew(e[1], files)))}
        /\ Len(graph'.edges) = Cardinality(Range(graph'.edges))
        /\ (\E b \in branches : Range(files[b].deps) \ branches # {}) => graph'.ok]_vars

\* the graph was built over a record that lists a non-existing branch ahead
\* of an existing one, and the edges of that and of another branch are there
C18_Witness ==
    /\ cmd.op = "update_r" /\ pc = "traverse" /\ log = <<>>
    /\ \E b \in branches, d \in branches :
          /\ Len(files[b].deps) = 2
          /\ files[b].deps[1] \notin branches
          /\ files[b].deps[2] = d
          /\ <<b, d>> \in Range(graph.edges)
          /\ \E c \in branches \ {b} : \E i \in 1..Len(graph.edges) : graph.edges[i][1] = c

\* C19: GraphRepo::reversed keeps the nodes and flips every edge: the
\* dependencies of a branch in the reversed graph are its dependents in the
\* original and the other way round, reversing twice gives the original
\* edges, and reversing an acyclic graph does not fail
C19_Reversed ==
    [][cmd'.op = "reversed" =>
        /\ graph'.nodes = graph.nodes
        /\ Len(graph'.edges) = Len(graph.edges)
        /\ Range(graph'.edges) = {<<e[2], e[1]>> : e \in Range(graph.edges)}
        /\ \A x \in Range(graph.nodes) :
              /\ Range(GetDependencies(graph', x)) = Range(GetDependents(graph, x))
              /\ Range(GetDependents(graph', x)) = Range(GetDependencies(graph, x))
        /\ Range(Reversed(graph').edges) = Range(graph.edges)
        /\ graph.ok => graph'.ok]_vars

\* a chain of two edges was reversed: its middle branch has a dependency and
\* a dependent on either side
C19_Witness ==
    /\ cmd.op = "reversed"
    /\ graph.ok
    /\ \E x \in Range(graph.nodes) :
          /\ GetDependencies(graph, x) # <<>>
          /\ GetDependents(graph, x) # <<>>
          /\ Range(GetDependencies(graph, x)) # Range(GetDependents(graph, x))

\* C20: in update --recursive, once the rebase of a branch d has failed, no
\* branch that depends on d, directly or through other branches, is rebased
\* later in the same invocation
C20_Claim ==
    cmd.op = "update_r" =>
        \A i \in 1..Len(log), j \in 1..Len(log) :
            (/\ i < j
             /\ log[i].gitok = "fail"
             /\ Reaches(graph.edges, log[j].branch, log[i].branch))
            => log[j].rebase = NoRebase

\* C21: in update --recursive, when Branch::update returns an error for a
\* branch (more than one dependency, no fork point, a state file that cannot
\* be written) the command fails there: update is called on no later branch,
\* and the rebases and the records of the branches before it stay as they
\* are
C21_StopOnError ==
    [][(cmd.op = "update_r" /\ ncmd' = ncmd) =>
        /\ (Called /\ log'[Len(log')].ret # "ok") =>
              /\ pc' = "done"
              /\ exit' = 1
              /\ \A m \in Names \ {log'[Len(log')].branch} :
                    files'[m] = files[m] /\ head'[m] = head[m] /\ fork'[m] = fork[m]
        /\ (log # <<>> /\ log[Len(log)].ret # "ok") =>
              /\ log' = log
              /\ exit' = 1
              /\ pc' = "idle"
              /\ files' = files /\ head' = head /\ fork' = fork]_vars

\* the command has exited on a failed save, after the rebase of an earlier
\* branch of the order had succeeded; that rebase is still in the backend
C21_Witness ==
    /\ cmd.op = "update_r"
    /\ pc = "idle" /\ exit = 1
    /\ Len(log) > 1
    /\ log[Len(log)].ret = "io"
    /\ \A i \in 1..(Len(log) - 1) : log[i].ret = "ok"
    /\ \E i \in 1..(Len(log) - 1) :
          /\ log[i].gitok = "ok"
          /\ fork[log[i].branch][log[i].rebase[1].onto] = head[log[i].rebase[1].onto]

\* a finished update --recursive in which every update returned Ok, every
\* rebase invoked succeeded and no branch had more than one dependency
CleanRun(l) ==
    /\ l # <<>>
    /\ \A i \in 1..Len(l) :
          l[i].ret = "ok" /\ l[i].gitok # "fail" /\ Len(l[i].deps) <= 1

\* update of the branch would rebase nothing and return Ok as things are
Settled(n) ==
    LET r == Update(n, files, head, fork, contains, merged, TRUE)
    IN r.ret = "ok" /\ r.rebase = NoRebase

\* the traversal loop of handle_update run from the state as it is, up to the
\* first rebase: TRUE if the loop invokes one
RECURSIVE RunRebases(_, _, _)
RunRebases(g, d, fs) ==
    LET nxt == DfsNext(g, d)
        r == Update(nxt.nx, fs, head, fork, contains, merged, TRUE)
    IN IF nxt.nx = None THEN FALSE
       ELSE IF r.rebase # NoRebase THEN TRUE
       ELSE IF AfterUpdate(r.ret) = "done" THEN FALSE
       ELSE RunRebases(g, nxt.dfs, r.fs)

\* update --recursive from the root has just finished as a clean run
CleanDone == cmd.op = "update_r" /\ pc = "idle" /\ exit = 0 /\ CleanRun(log)

\* C22: after an update --recursive from a root in which every rebase
\* succeeded and every visited branch had a single dependency, the tip of
\* the dependency of every visited branch is the fork point of the branch,
\* and the same command run again right away invokes no rebase
C22_Claim ==
    CleanDone =>
        /\ \A i \in 1..Len(log) :
              log[i].deps # <<>> =>
                  fork[log[i].branch][log[i].deps[1]] = head[log[i].deps[1]]
        /\ ~RunRebases(GraphNew(branches, files), DfsNew(cmd.cur), files)

\* C22 as amended: after such a run every visited branch passes the test of
\* update for needing no update (the tip of the dependency is the fork
\* point, or no fork point is found and the tips are equal, or the dependency
\* contains the branch, or the branch is merged into it), and the same
\* command run again right away invokes no rebase
C22_Converged ==
    CleanDone =>
        /\ \A i \in 1..Len(log) : Settled(log[i].branch)
        /\ ~RunRebases(GraphNew(branches, files), DfsNew(cmd.cur), files)

\* a run from a root has finished in which two branches were rebased, the
\* second onto the first
C22_Witness ==
    /\ CleanDone
    /\ \E i \in 1..Len(log), j \in 1..Len(log) :
          /\ i < j
          /\ log[i].gitok = "ok" /\ log[j].gitok = "ok"
          /\ log[j].rebase[1].onto = log[i].branch

\* C23: no command changes the dirty flag of a record from false to true: a
\* record with dirty = false is not dirty after any add, del, new or update,
\* a drift rebase included
C23_NeverDirtied ==
    [][\A n \in Names : ~files[n].dirty => ~files'[n].dirty]_vars

\* a drift rebase has succeeded on a branch whose record is not dirty, in a
\* run that had changed records before
C23_Witness ==
    /\ log # <<>>
    /\ LET e == log[Len(log)] IN
          /\ e.path = "drift"
          /\ e.gitok = "ok"
          /\ ~files[e.branch].dirty
    /\ ncmd > 1

\* C24: the records of distinct branches are independent: two distinct names
\* ("/" or "__" in them or not) have distinct state files, and saving the
\* state of one branch leaves the state loaded for any other as it was
C24_Claim ==
    [][cmd'.op = "save_state" =>
        \A m \in branches \ {cmd'.cur} :
            /\ StateFile(m) # StateFile(cmd'.cur)
            /\ LoadState(m, files') = LoadState(m, files)]_vars


====
